---------------------------- MODULE Spec2Model ----------------------------
(***************************************************************************)
(* Agricultural Audio Assistant (src/main.py): the upload pipeline         *)
(* recommend_from_audio, its three remote stages, the File Store           *)
(* (uploads/, outputs/, temp/) and the retention sweeper                   *)
(* periodic_cleanup / cleanup_old_files.                                   *)
(*                                                                         *)
(* Scheduling.  The service is one asyncio event loop.  A coroutine runs   *)
(* without interruption between two awaits, so each request action below   *)
(* is the code from one remote-call completion to the next remote-call     *)
(* submission.  cleanup_old_files contains no await: while a sweep cycle   *)
(* runs, no coroutine of a request runs.  The only code that runs in       *)
(* another thread is the deferred upload deletion (a plain lambda given to *)
(* BackgroundTasks runs in the thread pool), so it alone interleaves with  *)
(* the steps of a sweep cycle.                                             *)
(*                                                                         *)
(* Environment.  Remote calls succeed or fail nondeterministically and     *)
(* take arbitrarily long.  The file system is reliable: an operation on a  *)
(* file fails only when the file is absent.  uuid4 values are fresh.       *)
(***************************************************************************)
EXTENDS Integers, Sequences, FiniteSets, TLC

\* ------------------------------------------------------------------ bounds
\* Number of upload requests handled in one behaviour.
MaxReqs == 2

\* ------------------------------------------------------- program constants
\* asyncio.sleep(1800) in periodic_cleanup.
SleepSecs == 1800
\* Retention threshold of cleanup_old_files.
RetentionSecs == 3600
\* HTTP status codes the handler produces.
StatusOk == 200
StatusBadRequest == 400
StatusServerError == 500

\* Granularity of the clock of the model, and the age at which the model
\* stops counting (every age above RetentionSecs is treated alike by the code).
TickSecs == SleepSecs
AgeCap == RetentionSecs + TickSecs

Reqs == 1..MaxReqs
\* The id of a request that drew no uuid4 yet is 0; uuid4 values are 1, 2, ...

\* ---------------------------------------------------------------- strings
\* A string is a sequence of one-character strings.
LowerChar(c) ==
    CASE c = "W" -> "w"
      [] c = "A" -> "a"
      [] c = "V" -> "v"
      [] c = "M" -> "m"
      [] c = "P" -> "p"
      [] OTHER -> c

\* str.lower()
Lower(s) == [i \in 1..Len(s) |-> LowerChar(s[i])]

\* str.rfind("."), 1-based; 0 when there is no dot.
RFindDot(s) ==
    LET dots == {i \in 1..Len(s) : s[i] = "."}
    IN  IF dots = {} THEN 0 ELSE CHOOSE i \in dots : \A j \in dots : j <= i

\* pathlib: PurePath.suffix of a name without directory separators.
Suffix(name) ==
    LET i == RFindDot(name)
    IN  IF 1 < i /\ i < Len(name) THEN SubSeq(name, i, Len(name)) ELSE <<>>

\* allowed_extensions of recommend_from_audio.
AllowedExtensions ==
    { <<".", "w", "a", "v">>, <<".", "m", "p", "3">>, <<".", "m", "4", "a">>,
      <<".", "o", "g", "g">>, <<".", "f", "l", "a", "c">> }

\* Variant of the validation that compares the suffix case-sensitively.
ExtensionAllowedNoLower(fn) == Suffix(fn) \in AllowedExtensions
\* The validation of the file type: Path(filename).suffix.lower() in the set.
ExtensionAllowed(fn) == Lower(Suffix(fn)) \in AllowedExtensions

\* ------------------------------------------------------------------ inputs
AWav == <<"a", ".", "w", "a", "v">>
ATxt == <<"a", ".", "t", "x", "t">>
\* Filenames of the uploads of the full system.
FileNames == { AWav, ATxt }
\* Filenames the validation is examined on.
ValidationNames ==
    { <<>>, AWav, ATxt,
      <<"a", ".", "m", "p", "3">>, <<"a", ".", "m", "4", "a">>,
      <<"a", ".", "o", "g", "g">>, <<"a", ".", "f", "l", "a", "c">>,
      <<"a", ".", "W", "A", "V">>, <<"a", ".", "M", "p", "3">>,
      <<"w", "a", "v">>, <<".", "w", "a", "v">>, <<"a", ".", "w", "a", "v", ".">>,
      <<"a", ".", "w", "a", "v", ".", "t", "x", "t">>,
      <<"a", ".", "t", "x", "t", ".", "o", "g", "g">>,
      <<"a", ".", "w", "a">> }
\* Sizes (bytes) of the uploaded payload: empty or not.
PayloadSizes == {0, 1}
\* The payloads of the uploads of the full system are not empty.
FullSizes == {1}

\* ------------------------------------------------------------ file store
\* Variant of the upload path that leaves the request token out.
UploadPathNoToken(token, fn) == [dir |-> "uploads", id |-> 0, name |-> fn]
\* UPLOAD_DIR / f"{request_id}_{audio_file.filename}"
UploadPath(token, fn) == [dir |-> "uploads", id |-> token, name |-> fn]
\* OUTPUT_DIR / f"response_{request_id}.mp3"
OutputPath(token) ==
    [dir |-> "outputs", id |-> token, name |-> <<"response_", ".mp3">>]
\* TEMP_DIR / f"temp_audio_{uuid.uuid4().hex}.wav"
TempPath(suffix) ==
    [dir |-> "temp", id |-> suffix, name |-> <<"temp_audio_", ".wav">>]

\* The directories in the order cleanup_old_files visits them.
Dirs == <<"uploads", "outputs", "temp">>

VARIABLES
    client,     \* "none" when OPENAI_API_KEY is not set, else "openai"
    files,      \* the File Store: path -> [age, size]; age = now - st_mtime
    req,        \* per request: the handler's position and its response
    uuids,      \* number of uuid4 values drawn so far
    swPc,       \* periodic_cleanup: "sleeping", "sweeping" or "stopped"
    sleepLeft,  \* seconds left of the current asyncio.sleep
    swDir,      \* index in Dirs of the directory being swept
    swTodo,     \* paths listed by glob("*") and not yet examined
    swCur,      \* the path being examined, as a set of at most one path
    swStep,     \* position inside the loop body: "next", "stat" or "unlink"
    swLog,      \* what the last finished sweep cycle logged
    cancelled   \* cleanup_task.cancel() was called (lifespan shutdown)

vars == <<client, files, req, uuids, swPc, sleepLeft, swDir, swTodo, swCur,
          swStep, swLog, cancelled>>
swVars == <<swPc, sleepLeft, swDir, swTodo, swCur, swStep, swLog>>

Stages == <<"transcribe", "generate", "synthesize">>

NoDetail == [text |-> <<>>, allowed |-> {}]

IdleReq ==
    [pc |-> "idle", filename |-> <<>>, size |-> 0, token |-> 0,
     temp |-> 0, status |-> 0, detail |-> NoDetail, calls |-> <<>>,
     done |-> 0, bg |-> "none"]

Init ==
    /\ client \in {"none", "openai"}
    /\ files = <<>>
    /\ req = [r \in Reqs |-> IdleReq]
    /\ uuids = 0
    /\ swPc = "sleeping"
    /\ sleepLeft = SleepSecs
    /\ swDir = 0
    /\ swTodo = {}
    /\ swCur = {}
    /\ swStep = "next"
    /\ swLog = [last |-> "none", fileErrors |-> FALSE]
    /\ cancelled = FALSE

\* ------------------------------------------------------- file operations
Present(p) == p \in DOMAIN files

\* open(p, "wb") + write: creates or truncates, mtime = now.
WriteFile(fs, p, size) ==
    [q \in DOMAIN fs \cup {p} |->
        IF q = p THEN [age |-> 0, size |-> size] ELSE fs[q]]

\* Path.unlink(missing_ok=True)
UnlinkMissingOk(fs, p) == [q \in DOMAIN fs \ {p} |-> fs[q]]

\* ------------------------------------------------------------ responses
\* str(e) of a starlette HTTPException: "{status_code}: {detail}".
StrHTTPException(status, text) ==
    IF status = StatusServerError THEN <<"500: ">> \o text ELSE <<"?: ">> \o text

MisconfiguredText == <<"Server misconfigured: OPENAI_API_KEY not set">>
UpstreamText == <<"upstream error">>

\* Variant of the adapters without the test of the client.
ClientMissingNever == FALSE
\* The three adapters test the client before the remote call.
ClientMissing == client = "none"

\* Variant of the error path that also schedules the deferred deletion.
RespondErrorAndCleanup(rq, status, detail) ==
    [rq EXCEPT !.pc = "responded", !.status = status, !.detail = detail,
               !.bg = "scheduled"]
\* raise HTTPException(...) leaving recommend_from_audio ("except
\* HTTPException: raise"): the request ends with that error.
RespondError(rq, status, detail) ==
    [rq EXCEPT !.pc = "responded", !.status = status, !.detail = detail]

\* The "except Exception" of an adapter: HTTPException(500, "<stage> failed: {e}").
StageErrorDetail(prefix, cause) == [text |-> <<prefix>> \o cause, allowed |-> {}]

\* The cause raised inside an adapter whose remote call is not made or fails.
MisconfiguredCause == StrHTTPException(StatusServerError, MisconfiguredText)


\* Variant that swallows the transcription error and goes on to step 2.
TranscribeErrorIgnored(rq, cause) ==
    [rq EXCEPT !.pc = "generating", !.calls = Append(@, "generate")]
\* transcribe_audio_async, "except Exception": the request ends with
\* 500 "Transcription failed: {e}" and no later stage is started.
TranscribeError(rq, cause) ==
    RespondError(rq, StatusServerError,
                 StageErrorDetail("Transcription failed: ", cause))

\* query_llama_async, "except Exception".
GenerateError(rq, cause) ==
    RespondError(rq, StatusServerError,
                 StageErrorDetail("LLaMA query failed: ", cause))

\* text_to_speech_async, "except Exception".
SynthError(rq, cause) ==
    RespondError(rq, StatusServerError,
                 StageErrorDetail("Text-to-speech failed: ", cause))

\* Step 2 of the handler up to the remote call of query_llama_async.
StartGenerate(rq) ==
    IF ClientMissing
    THEN GenerateError(rq, MisconfiguredCause)
    ELSE [rq EXCEPT !.pc = "generating", !.calls = Append(@, "generate")]

\* Step 3 of the handler up to the remote call of text_to_speech_async.
StartSynthesize(rq) ==
    IF ClientMissing
    THEN SynthError(rq, MisconfiguredCause)
    ELSE [rq EXCEPT !.pc = "synthesizing", !.calls = Append(@, "synthesize")]

\* background_tasks.add_task(lambda: upload_path.unlink(missing_ok=True))
\* followed by "return JSONResponse({...})".
Succeed(rq) ==
    [rq EXCEPT !.pc = "responded", !.status = StatusOk, !.bg = "scheduled"]

\* ------------------------------------------------------ request actions
\* The event loop runs a request's coroutine only while no sweep cycle runs,
\* and the server handles requests until the lifespan shuts down.
LoopFree == swPc # "sweeping" /\ ~cancelled

\* POST /recommend-from-audio: validation, request token, saving the upload,
\* and transcribe_audio_async up to its remote call.  Requests are numbered
\* in the order of their arrival.
Receive(r, fn, size) ==
    /\ LoopFree
    /\ req[r].pc = "idle"
    /\ \A q \in Reqs : q < r => req[q].pc # "idle"
    /\ UNCHANGED <<client, swVars, cancelled>>
    /\ IF fn = <<>>
       THEN /\ req' = [req EXCEPT ![r] =
                         RespondError([@ EXCEPT !.size = size], StatusBadRequest,
                            [text |-> <<"No file uploaded">>, allowed |-> {}])]
            /\ UNCHANGED <<files, uuids>>
       ELSE IF ~ExtensionAllowed(fn)
       THEN /\ req' = [req EXCEPT ![r] =
                         RespondError([@ EXCEPT !.filename = fn, !.size = size],
                            StatusBadRequest,
                            [text |-> <<"Unsupported file type. Allowed: ">>,
                             allowed |-> AllowedExtensions])]
            /\ UNCHANGED <<files, uuids>>
       ELSE LET token == uuids + 1
                suffix == uuids + 2
                up == UploadPath(token, fn)
                saved == WriteFile(files, up, size)
                copied == WriteFile(saved, TempPath(suffix), saved[up].size)
                rq == [req[r] EXCEPT !.filename = fn, !.size = size,
                                     !.token = token, !.temp = suffix]
            IN  /\ uuids' = uuids + 2
                /\ files' = copied
                /\ req' = [req EXCEPT ![r] =
                             IF ClientMissing
                             THEN TranscribeError(rq, MisconfiguredCause)
                             ELSE [rq EXCEPT !.pc = "transcribing",
                                             !.calls = Append(@, "transcribe")]]

\* The remote transcription returns (ok) or raises (~ok).
TranscribeReturn(r, ok) ==
    /\ LoopFree
    /\ req[r].pc = "transcribing"
    /\ UNCHANGED <<client, uuids, swVars, cancelled>>
    /\ IF ok
       THEN /\ files' = UnlinkMissingOk(files, TempPath(req[r].temp))
            /\ req' = [req EXCEPT ![r] = StartGenerate([@ EXCEPT !.done = 1])]
       ELSE /\ UNCHANGED files
            /\ req' = [req EXCEPT ![r] = TranscribeError(@, UpstreamText)]

\* The remote text generation returns or raises.
GenerateReturn(r, ok) ==
    /\ LoopFree
    /\ req[r].pc = "generating"
    /\ UNCHANGED <<client, files, uuids, swVars, cancelled>>
    /\ req' = [req EXCEPT ![r] =
                 IF ok THEN StartSynthesize([@ EXCEPT !.done = 2])
                       ELSE GenerateError(@, UpstreamText)]

\* The remote speech synthesis returns or raises.
SynthReturn(r, ok) ==
    /\ LoopFree
    /\ req[r].pc = "synthesizing"
    /\ UNCHANGED <<client, uuids, swVars, cancelled>>
    /\ IF ok
       THEN /\ files' = WriteFile(files, OutputPath(req[r].token), 1)
            /\ req' = [req EXCEPT ![r] = Succeed([@ EXCEPT !.done = 3])]
       ELSE /\ UNCHANGED files
            /\ req' = [req EXCEPT ![r] = SynthError(@, UpstreamText)]

\* The deferred deletion of the upload, run in the thread pool after the
\* response was sent.
BgDelete(r) ==
    /\ ~cancelled
    /\ req[r].bg = "scheduled"
    /\ files' = UnlinkMissingOk(files, UploadPath(req[r].token, req[r].filename))
    /\ req' = [req EXCEPT ![r].bg = "ran"]
    /\ UNCHANGED <<client, uuids, swVars, cancelled>>

\* ------------------------------------------------------------------ time
Min(a, b) == IF a < b THEN a ELSE b
Max(a, b) == IF a > b THEN a ELSE b

\* TickSecs seconds pass.  The timer of asyncio.sleep fires on time: no
\* further tick passes once the sleep is over and before the sweep starts.
Tick ==
    /\ LoopFree
    /\ ~(swPc = "sleeping" /\ sleepLeft = 0)
    /\ files' = [p \in DOMAIN files |->
                    [files[p] EXCEPT !.age = Min(@ + TickSecs, AgeCap)]]
    /\ sleepLeft' = IF swPc = "sleeping" THEN Max(sleepLeft - TickSecs, 0)
                                          ELSE sleepLeft
    /\ UNCHANGED <<client, req, uuids, swPc, swDir, swTodo, swCur, swStep,
                   swLog, cancelled>>

\* --------------------------------------------------------------- sweeper
\* directory.glob("*")
Listing(d) == {p \in DOMAIN files : p.dir = Dirs[d]}

\* "await asyncio.sleep(1800)" returns and cleanup_old_files starts.
SweepWake ==
    /\ swPc = "sleeping"
    /\ ~cancelled
    /\ sleepLeft = 0
    /\ swPc' = "sweeping"
    /\ swDir' = 1
    /\ swTodo' = Listing(1)
    /\ swCur' = {}
    /\ swStep' = "next"
    /\ swLog' = [swLog EXCEPT !.fileErrors = FALSE]
    /\ UNCHANGED <<client, files, req, uuids, sleepLeft, cancelled>>

\* Variant in which an exception of a sweep cycle leaves the loop.
AfterSweepErrorBreak == "stopped"
\* The state of periodic_cleanup after a sweep cycle ended by an exception
\* ("except Exception": log, and go round the loop again).
AfterSweepError == "sleeping"

\* The next path of the listing and its is_file() test; after the last path
\* of a directory the next directory is listed; after the last directory
\* the cycle is complete and the loop sleeps again.
SweepNext ==
    /\ swPc = "sweeping"
    /\ swStep = "next"
    /\ UNCHANGED <<client, files, req, uuids, cancelled>>
    /\ IF swTodo # {}
       THEN \E p \in swTodo :
              /\ swTodo' = swTodo \ {p}
              /\ IF Present(p)
                 THEN swCur' = {p} /\ swStep' = "stat"
                 ELSE swCur' = {} /\ swStep' = "next"
              /\ UNCHANGED <<swPc, sleepLeft, swDir, swLog>>
       ELSE IF swDir < Len(Dirs)
       THEN /\ swDir' = swDir + 1
            /\ swTodo' = Listing(swDir + 1)
            /\ UNCHANGED <<swPc, sleepLeft, swCur, swStep, swLog>>
       ELSE /\ swPc' = "sleeping"
            /\ sleepLeft' = SleepSecs
            /\ swDir' = 0
            /\ swLog' = [swLog EXCEPT !.last = "complete"]
            /\ UNCHANGED <<swTodo, swCur, swStep>>

\* file_path.stat().st_mtime and the age test.  stat() is outside the try of
\* cleanup_old_files: on a path that no longer exists it raises out of the
\* cycle, into the "except Exception" of periodic_cleanup.
SweepStat ==
    /\ swPc = "sweeping"
    /\ swStep = "stat"
    /\ UNCHANGED <<client, files, req, uuids, cancelled>>
    /\ \E p \in swCur :
         IF ~Present(p)
         THEN /\ swPc' = AfterSweepError
              /\ sleepLeft' = SleepSecs
              /\ swDir' = 0
              /\ swTodo' = {}
              /\ swCur' = {}
              /\ swStep' = "next"
              /\ swLog' = [swLog EXCEPT !.last = "aborted"]
         ELSE IF files[p].age > RetentionSecs
         THEN /\ swStep' = "unlink"
              /\ UNCHANGED <<swPc, sleepLeft, swDir, swTodo, swCur, swLog>>
         ELSE /\ swStep' = "next"
              /\ swCur' = {}
              /\ UNCHANGED <<swPc, sleepLeft, swDir, swTodo, swLog>>

\* file_path.unlink() inside the try: a failure is logged and the loop goes on.
SweepUnlink ==
    /\ swPc = "sweeping"
    /\ swStep = "unlink"
    /\ UNCHANGED <<client, req, uuids, cancelled, swPc, sleepLeft, swDir, swTodo>>
    /\ \E p \in swCur :
         /\ swCur' = {}
         /\ swStep' = "next"
         /\ IF Present(p)
            THEN files' = UnlinkMissingOk(files, p) /\ UNCHANGED swLog
            ELSE UNCHANGED files /\ swLog' = [swLog EXCEPT !.fileErrors = TRUE]

\* lifespan shutdown: cleanup_task.cancel().  The server runs it once the
\* requests in flight and their background tasks are finished.
Shutdown ==
    /\ LoopFree
    /\ \A r \in Reqs : req[r].pc \in {"idle", "responded"} /\ req[r].bg # "scheduled"
    /\ cancelled' = TRUE
    /\ UNCHANGED <<client, files, req, uuids, swVars>>

\* CancelledError is raised at "await asyncio.sleep(1800)": break.
SweeperCancelled ==
    /\ swPc = "sleeping"
    /\ cancelled
    /\ swPc' = "stopped"
    /\ UNCHANGED <<client, files, req, uuids, sleepLeft, swDir, swTodo, swCur,
                   swStep, swLog, cancelled>>

Sweeper == SweepWake \/ SweepNext \/ SweepStat \/ SweepUnlink \/ SweeperCancelled

Request(r, names, sizes) ==
    \/ \E fn \in names, size \in sizes : Receive(r, fn, size)
    \/ \E ok \in BOOLEAN : TranscribeReturn(r, ok)
    \/ \E ok \in BOOLEAN : GenerateReturn(r, ok)
    \/ \E ok \in BOOLEAN : SynthReturn(r, ok)
    \/ BgDelete(r)

Next ==
    \/ \E r \in Reqs : Request(r, FileNames, FullSizes)
    \/ Tick
    \/ Sweeper
    \/ Shutdown

\* The full system.
Spec == Init /\ [][Next]_vars

\* One request alone, over every filename and payload of the validation.
NextOne == Request(1, ValidationNames, PayloadSizes)
SpecOne == Init /\ [][NextOne]_vars

\* The system with accepted uploads only, under the scheduling of the event
\* loop: time passes, and a sweeper step that can be taken is eventually taken.
NextLive ==
    \/ \E r \in Reqs : Request(r, {AWav}, FullSizes)
    \/ Tick
    \/ Sweeper
    \/ Shutdown
LiveSpec == Init /\ [][NextLive]_vars /\ WF_vars(Tick) /\ WF_vars(Sweeper)

\* ================================================================ claims
IsPrefix(s, t) == Len(s) <= Len(t) /\ SubSeq(t, 1, Len(s)) = s

Contains(text, part) ==
    \E i \in 1..Len(text) :
        i + Len(part) - 1 <= Len(text) /\ SubSeq(text, i, i + Len(part) - 1) = part

FailedAt(r, prefix) ==
    /\ req[r].status = StatusServerError
    /\ Len(req[r].detail.text) > 0
    /\ req[r].detail.text[1] = prefix

\* C1: the remote stages of a request are called in the order transcribe,
\* generate, synthesize, stage k+1 only after k stages succeeded; a request
\* whose transcription failed has status 500 and called neither generation
\* nor synthesis; one whose generation failed never called synthesis; status
\* 200 is given only after all three stages succeeded.
C1_StagesInOrder ==
    \A r \in Reqs :
        /\ IsPrefix(req[r].calls, Stages)
        /\ Len(req[r].calls) <= req[r].done + 1
        /\ req[r].status = StatusServerError => req[r].pc = "responded"
        /\ FailedAt(r, "Transcription failed: ") =>
              /\ req[r].done = 0
              /\ \A i \in 1..Len(req[r].calls) :
                    req[r].calls[i] \notin {"generate", "synthesize"}
        /\ FailedAt(r, "LLaMA query failed: ") =>
              \A i \in 1..Len(req[r].calls) : req[r].calls[i] # "synthesize"
        /\ req[r].status = StatusOk => req[r].done = 3 /\ req[r].calls = Stages

\* A transcription that failed upstream, and a generation that failed upstream.
C1_Witness ==
    /\ req[1].status = StatusServerError
    /\ req[1].detail.text = <<"Transcription failed: ">> \o UpstreamText
    /\ req[1].calls = <<"transcribe">>
    /\ FailedAt(2, "LLaMA query failed: ")
    /\ req[2].calls = <<"transcribe", "generate">>

\* C2: a request whose filename is missing or whose payload is empty is
\* answered 400 and makes no remote call.
C2_EmptyUploadRejected ==
    \A r \in Reqs :
        (req[r].pc # "idle" /\ (req[r].filename = <<>> \/ req[r].size = 0)) =>
            /\ req[r].calls = <<>>
            /\ req[r].pc = "responded" => req[r].status = StatusBadRequest

\* C3: without the credential every request that passed the validation ends
\* with status 500 and a detail that carries the "Server misconfigured"
\* message, and no request makes a remote call.
C3_Misconfigured ==
    client = "none" =>
        \A r \in Reqs :
            /\ req[r].calls = <<>>
            /\ req[r].token # 0 =>
                  /\ req[r].pc = "responded"
                  /\ req[r].status = StatusServerError
                  /\ Contains(req[r].detail.text, MisconfiguredText)

C3_Witness ==
    /\ client = "none"
    /\ \E r \in Reqs : req[r].token # 0 /\ req[r].status = StatusServerError

\* The path carries the request's token (uploads, outputs) or the random
\* suffix its transcription drew (temp).
NamedFor(rq, p) ==
    \/ p.dir \in {"uploads", "outputs"} /\ rq.token # 0 /\ p.id = rq.token
    \/ p.dir = "temp" /\ rq.temp # 0 /\ p.id = rq.temp

\* The paths a step creates, rewrites or deletes.
Touched ==
    {p \in DOMAIN files \cup DOMAIN files' :
        ~(p \in DOMAIN files /\ p \in DOMAIN files' /\ files[p] = files'[p])}

\* C4: two accepted requests have different tokens, upload paths, output
\* paths and temp copies, also when their filenames are equal, and a step of
\* a request touches only paths named for that request.
C4_NoCollision ==
    /\ [](\A r, q \in Reqs :
            (r # q /\ req[r].token # 0 /\ req[q].token # 0) =>
                /\ req[r].token # req[q].token
                /\ UploadPath(req[r].token, req[r].filename)
                       # UploadPath(req[q].token, req[q].filename)
                /\ OutputPath(req[r].token) # OutputPath(req[q].token)
                /\ TempPath(req[r].temp) # TempPath(req[q].temp))
    /\ [][\A r \in Reqs :
             req'[r] # req[r] => \A p \in Touched : NamedFor(req'[r], p)]_vars

\* Two requests with the same filename both succeeded, each with its own
\* output, while the deferred deletions of both are still pending.
C4_Witness ==
    /\ req[1].filename = req[2].filename
    /\ req[1].status = StatusOk /\ req[2].status = StatusOk
    /\ req[1].bg = "scheduled" /\ req[2].bg = "scheduled"
    /\ Present(OutputPath(req[1].token)) /\ Present(OutputPath(req[2].token))
    /\ Present(UploadPath(req[1].token, req[1].filename))
    /\ Present(UploadPath(req[2].token, req[2].filename))

\* A sweep cycle ends: normally, or by an exception.
CycleEnds == swPc = "sweeping" /\ swPc' # "sweeping"
\* The step is the unlink of the sweeper.
SweeperDeletes == swPc = "sweeping" /\ swStep = "unlink" /\ swStep' = "next"

\* C5: when a sweep cycle ends no file older than the threshold is left, and
\* the sweeper deletes no file that is not older than the threshold.  (No
\* file is created and no time passes while a cycle runs, so a file older
\* than the threshold at the end was so during the whole cycle.)
C5_SweepRemovesExpired ==
    /\ [][CycleEnds =>
            \A p \in DOMAIN files' : files'[p].age <= RetentionSecs]_vars
    /\ [][SweeperDeletes =>
            \A p \in DOMAIN files \ DOMAIN files' : files[p].age > RetentionSecs]_vars

\* C6: a failure on one file never aborts a sweep cycle: a cycle ends only
\* after the three directories were listed and every listed path examined,
\* and it leaves no file older than the threshold.
C6_FailureNeverAborts ==
    [][CycleEnds =>
          /\ swDir = Len(Dirs) /\ swTodo = {} /\ swCur = {}
          /\ swLog'.last = "complete"
          /\ \A p \in DOMAIN files' : files'[p].age <= RetentionSecs]_vars

\* C7: periodic_cleanup is stopped only after cancellation; every end of a
\* sweep cycle, also by an exception, leads to the next sleep; and unless the
\* task is cancelled, sweep cycles start again and again, and each one ends.
C7_SweeperKeepsRunning ==
    /\ [](swPc = "stopped" => cancelled)
    /\ [][CycleEnds => swPc' = "sleeping" /\ sleepLeft' = SleepSecs]_vars
    /\ []<>(swPc = "sweeping" \/ cancelled)
    /\ []<>(swPc # "sweeping")

\* A sweep cycle runs after a cycle was aborted by an exception.
C7_Witness == swPc = "sweeping" /\ swLog.last = "aborted" /\ ~cancelled

\* C8: the deferred deletion is scheduled exactly for the requests answered
\* 200 (all three stages succeeded); an upload is deleted only by the
\* deferred deletion of its own, already answered, request or by the
\* sweeper, and an output only by the sweeper.
C8_DeferredDeletion ==
    /\ [](\A r \in Reqs :
            /\ req[r].bg # "none" <=> req[r].status = StatusOk
            /\ req[r].status = StatusOk => req[r].done = 3)
    /\ [][\A p \in DOMAIN files \ DOMAIN files' :
             p.dir \in {"uploads", "outputs"} =>
                \/ SweeperDeletes
                \/ /\ p.dir = "uploads"
                   /\ \E r \in Reqs :
                        /\ NamedFor(req[r], p)
                        /\ req[r].status = StatusOk /\ req[r].pc = "responded"
                        /\ req[r].bg = "scheduled" /\ req'[r].bg = "ran"]_vars

\* One request failed and its upload is still stored; the other succeeded
\* and its deferred deletion removed its upload.
C8_Witness ==
    \E r, q \in Reqs :
        /\ req[r].status = StatusServerError /\ req[r].token # 0
        /\ req[r].bg = "none"
        /\ Present(UploadPath(req[r].token, req[r].filename))
        /\ req[q].status = StatusOk /\ req[q].bg = "ran"
        /\ ~Present(UploadPath(req[q].token, req[q].filename))
        /\ Present(OutputPath(req[q].token))

\* The accepted extensions, without the dot.
AcceptedWords ==
    { <<"w", "a", "v">>, <<"m", "p", "3">>, <<"m", "4", "a">>,
      <<"o", "g", "g">>, <<"f", "l", "a", "c">> }

\* The name ends, in any case, with a dot and an accepted extension that
\* follow a non-empty stem.
HasAcceptedExtension(fn) ==
    \E e \in AcceptedWords :
        /\ Len(fn) > Len(e) + 1
        /\ fn[Len(fn) - Len(e)] = "."
        /\ Lower(SubSeq(fn, Len(fn) - Len(e) + 1, Len(fn))) = e

\* C9: a request with a (non-empty) filename passes the validation exactly
\* when the filename has an accepted extension; otherwise it is answered 400
\* with the allowed set, no file is written and no remote call is made.
C9_ExtensionValidation ==
    \A r \in Reqs :
        (req[r].pc # "idle" /\ req[r].filename # <<>>) =>
            IF HasAcceptedExtension(req[r].filename)
            THEN /\ req[r].token # 0
                 /\ req[r].status # StatusBadRequest
            ELSE /\ req[r].pc = "responded"
                 /\ req[r].status = StatusBadRequest
                 /\ req[r].detail.allowed = {<<".">> \o e : e \in AcceptedWords}
                 /\ req[r].token = 0
                 /\ req[r].calls = <<>>
                 /\ \A p \in DOMAIN files : ~NamedFor(req[r], p) /\ p.id # 0

C9_Witness ==
    /\ req[1].filename = ATxt
    /\ req[1].status = StatusBadRequest
    /\ req[1].detail.allowed = AllowedExtensions

\* C10: once a call of transcribe_audio_async has returned, by a transcript
\* or by an error, the temp copy it created does not exist.
C10_TempCopyDeleted ==
    \A r \in Reqs :
        (req[r].temp # 0 /\ req[r].pc # "transcribing") =>
            ~Present(TempPath(req[r].temp))

=============================================================================
